---- MODULE Spec2Model ----
(***************************************************************************)
(* Model of prep_dataset.py: split a PCM WAV into fixed-length chunks,     *)
(* transcribe every chunk with the whisper.cpp CLI and write metadata.csv. *)
(* The file system under OUT_DIR persists from one run of main() to the    *)
(* next; everything else is local to a run.                                *)
(***************************************************************************)
EXTENDS Integers, Sequences, FiniteSets, TLC

(* ---------------- bounds of the model ---------------- *)
MaxRuns == 2
MaxFrames == 3

(* ---------------- configuration (prep_dataset.py:11-16) ---------------- *)
MODEL_PATH == "models/ggml-small.en.bin"
OUT_DIR == "dataset_out"
WHISPER_BIN == "whisper-cpp"
LANG == "en"

(* ---------------- text: a string is a sequence of characters ---------------- *)
NL == "\n"
CR == "\r"
Whitespace == {" ", "\t", NL, CR}

\* What the backend may write into a sidecar .txt file (raw file contents).
SidecarTexts ==
  { <<" ", "a", NL>>,
    <<"h", "|", "w", CR, NL, "f", NL>> }

\* Captured (stdout, stderr) of the subprocess.
Captured == { <<"", "error: failed to initialize whisper context">> }

\* Frame rates of the input and values of --chunk-sec.
Rates == {1, 2}
ChunkSecs == {-1, 0, 1, 2}

\* open(path, "r") with newline=None: "\r\n" and "\r" are read as "\n".
RECURSIVE ReadText(_)
ReadText(s) ==
  IF s = <<>> THEN <<>>
  ELSE IF Head(s) = CR
       THEN <<NL>> \o ReadText(IF Len(s) >= 2 /\ s[2] = NL
                               THEN SubSeq(s, 3, Len(s))
                               ELSE Tail(s))
       ELSE <<Head(s)>> \o ReadText(Tail(s))

RECURSIVE LStrip(_)
LStrip(s) ==
  IF s # <<>> /\ Head(s) \in Whitespace THEN LStrip(Tail(s)) ELSE s

RECURSIVE RStrip(_)
RStrip(s) ==
  IF s # <<>> /\ s[Len(s)] \in Whitespace
  THEN RStrip(SubSeq(s, 1, Len(s) - 1))
  ELSE s

\* str.strip()
Strip(s) == RStrip(LStrip(s))

\* "\n".join(lines)
RECURSIVE Join(_)
Join(lines) ==
  IF lines = <<>> THEN <<>>
  ELSE IF Len(lines) = 1 THEN lines[1]
  ELSE lines[1] \o <<NL>> \o Join(Tail(lines))

(* ---------------- paths ---------------- *)
\* os.path.join
PathJoin(a, b) == a \o "/" \o b

\* f"{n:04d}"
Pad4(n) ==
  IF n < 10 THEN "000" \o ToString(n)
  ELSE IF n < 100 THEN "00" \o ToString(n)
  ELSE IF n < 1000 THEN "0" \o ToString(n)
  ELSE ToString(n)

\* f"{i+1:04d}.wav" for the loop index i (0-based)
ChunkName(i) == Pad4(i + 1) \o ".wav"

WavsDir == PathJoin(OUT_DIR, "wavs")
MetaPath == PathJoin(OUT_DIR, "metadata.csv")

\* os.path.splitext(chunk_path)[0] for the chunk paths split_wav produces
Stems == { PathJoin(WavsDir, Pad4(n)) : n \in 1..(MaxFrames + 1) }
SplitextBase(path) == CHOOSE b \in Stems : b \o ".wav" = path

(* ---------------- split_wav arithmetic ---------------- *)
Min(a, b) == IF a <= b THEN a ELSE b

\* int(rate * chunk_sec); chunk_sec is an int (signature, and int() at main 118)
FramesPerChunk(rate, chunk_sec) == rate * chunk_sec

\* variant: floor + 1 instead of ceil (one chunk too many on an exact multiple)
NChunksOffByOne(nfrm, fpc) == nfrm \div fpc + 1

\* math.ceil(nfrm / frames_per_chunk)
NChunks(nfrm, fpc) ==
  IF nfrm % fpc = 0 THEN nfrm \div fpc ELSE nfrm \div fpc + 1

\* variant: the n_chunks == 0 check left out
SplitRaisesNoEmptyCheck(rate, chunk_sec, nfrm) ==
  FramesPerChunk(rate, chunk_sec) <= 0

\* the two ValueErrors of split_wav
SplitRaises(rate, chunk_sec, nfrm) ==
  \/ FramesPerChunk(rate, chunk_sec) <= 0
  \/ NChunks(nfrm, FramesPerChunk(rate, chunk_sec)) = 0

\* the frames of the source waveform, numbered from 1
SourceFrames(nfrm) == [j \in 1..nfrm |-> j]

\* wf.setpos(pos); wf.readframes(n)
ReadFrames(src, pos, n) == SubSeq(src, pos + 1, Min(pos + n, Len(src)))

(* ---------------- state ---------------- *)
VARIABLES
  run,          \* number of runs of main() started so far
  pc,           \* position of the current run
  env,          \* what the current run finds: input file, model, binary, arguments
  wavs_dir,     \* TRUE iff OUT_DIR/wavs exists
  wavs,         \* path -> [rate, frames] for every .wav under OUT_DIR/wavs
  txts,         \* path -> raw contents for every .txt under OUT_DIR/wavs
  metadata,     \* <<>> if metadata.csv does not exist, else <<contents>>
  chunks,       \* split_wav's out list: <<name, path>> pairs
  meta_lines,   \* main's meta_lines
  res,          \* outcome of the transcribe_chunk call main is handling
  backend,      \* history: what the backend wrote at each invocation of this run
  log           \* history: the writes and backend invocations of this run, in order

vars == <<run, pc, env, wavs_dir, wavs, txts, metadata, chunks, meta_lines,
          res, backend, log>>

\* res before any call of transcribe_chunk in a run
NoRes == [ok |-> TRUE, text |-> <<>>, exc |-> "", msg |-> <<>>, proc |-> <<>>]

EmptyMap == [p \in {} |-> <<>>]

Envs ==
  [in_exists : BOOLEAN, model_exists : BOOLEAN, bin_exists : BOOLEAN,
   rate : Rates, nfrm : 0..MaxFrames, chunk_sec : ChunkSecs]

\* before the first run: nothing exists under OUT_DIR
Init ==
  /\ run = 0
  /\ pc = "idle"
  /\ env = [in_exists |-> FALSE, model_exists |-> FALSE, bin_exists |-> FALSE,
            rate |-> 1, nfrm |-> 0, chunk_sec |-> 1]
  /\ wavs_dir = FALSE
  /\ wavs = EmptyMap
  /\ txts = EmptyMap
  /\ metadata = <<>>
  /\ chunks = <<>>
  /\ meta_lines = <<>>
  /\ res = NoRes
  /\ backend = <<>>
  /\ log = <<>>

(* ---------------- transcribe_chunk ---------------- *)
ExitCodes == {0, 1}

\* args of subprocess.run: lang is set, force_cpu is set, ngl = _supports_flag
Command(chunk_path, ngl) ==
  <<WHISPER_BIN, "-m", MODEL_PATH, "-f", chunk_path,
    "-of", SplitextBase(chunk_path), "-otxt", "-l", LANG>>
  \o (IF ngl THEN <<"-ngl", "0">> ELSE <<>>)

TxtPath(chunk_path) == SplitextBase(chunk_path) \o ".txt"

\* transcribe_chunk (66-96) once subprocess.run is over. bin_exists: the
\* executable could be started; code, out: what the process returned; files: the
\* .txt files that exist when it has returned. proc is the CompletedProcess,
\* msg what the RuntimeError's message embeds.
\* variant: a non-zero exit code fails the call even if the .txt exists
TranscribeChunkExitCodeWins(chunk_path, bin_exists, ngl, code, out, files) ==
  LET p == [args |-> Command(chunk_path, ngl), returncode |-> code, out |-> out]
  IN IF ~bin_exists
     THEN [NoRes EXCEPT !.ok = FALSE, !.exc = "FileNotFoundError"]
     ELSE IF code # 0 \/ TxtPath(chunk_path) \notin DOMAIN files
     THEN [NoRes EXCEPT !.ok = FALSE, !.exc = "RuntimeError", !.proc = <<p>>,
                        !.msg = <<p.args, p.returncode, p.out>>]
     ELSE [NoRes EXCEPT !.proc = <<p>>,
                        !.text = Strip(ReadText(files[TxtPath(chunk_path)]))]

TranscribeChunk(chunk_path, bin_exists, ngl, code, out, files) ==
  LET p == [args |-> Command(chunk_path, ngl), returncode |-> code, out |-> out]
  IN IF ~bin_exists
     THEN [NoRes EXCEPT !.ok = FALSE, !.exc = "FileNotFoundError"]
     ELSE IF TxtPath(chunk_path) \notin DOMAIN files
     THEN [NoRes EXCEPT !.ok = FALSE, !.exc = "RuntimeError", !.proc = <<p>>,
                        !.msg = <<p.args, p.returncode, p.out>>]
     ELSE [NoRes EXCEPT !.proc = <<p>>,
                        !.text = Strip(ReadText(files[TxtPath(chunk_path)]))]

(* ---------------- main ---------------- *)
Terminal == {"exit", "error", "done"}

\* main 131-142 and split_wav 24-36: the checks, ensure_dir, the two ValueErrors
MainStart ==
  /\ pc \in {"idle"} \cup Terminal
  /\ run < MaxRuns
  /\ \E e \in Envs :
       /\ env' = e
       /\ IF ~e.in_exists \/ ~e.model_exists
          THEN /\ pc' = "exit"
               /\ UNCHANGED wavs_dir
          ELSE /\ wavs_dir' = TRUE
               /\ pc' = IF SplitRaises(e.rate, e.chunk_sec, e.nfrm) THEN "error"
                        ELSE IF NChunks(e.nfrm, FramesPerChunk(e.rate, e.chunk_sec)) = 0
                        THEN "write"
                        ELSE "split"
  /\ run' = run + 1
  /\ chunks' = <<>>
  /\ meta_lines' = <<>>
  /\ res' = NoRes
  /\ backend' = <<>>
  /\ log' = <<>>
  /\ UNCHANGED <<wavs, txts, metadata>>

\* split_wav 38-49: one iteration of the loop
SplitChunk ==
  /\ pc = "split"
  /\ LET i == Len(chunks)
         fpc == FramesPerChunk(env.rate, env.chunk_sec)
         frames == ReadFrames(SourceFrames(env.nfrm), i * fpc,
                              Min(fpc, env.nfrm - i * fpc))
         name == ChunkName(i)
         out_path == PathJoin(WavsDir, name)
     IN /\ wavs' = (out_path :> [rate |-> env.rate, frames |-> frames]) @@ wavs
        /\ chunks' = Append(chunks, <<name, out_path>>)
        /\ log' = Append(log, <<"wav", out_path>>)
        /\ pc' = IF i + 1 = NChunks(env.nfrm, fpc) THEN "transcribe" ELSE "split"
  /\ UNCHANGED <<run, env, wavs_dir, txts, metadata, meta_lines, res, backend>>

\* main 148: the call of transcribe_chunk for the next chunk, the backend's
\* behaviour chosen freely (it writes a sidecar file or none, any exit code)
TranscribeCall ==
  /\ pc = "transcribe"
  /\ LET fpath == chunks[Len(meta_lines) + 1][2]
     IN \E w \in {<<>>} \cup {<<t>> : t \in SidecarTexts}, code \in ExitCodes,
           out \in Captured, ngl \in BOOLEAN :
          LET wrote == IF env.bin_exists THEN w ELSE <<>>
              files == IF wrote # <<>>
                       THEN (TxtPath(fpath) :> wrote[1]) @@ txts
                       ELSE txts
              r == TranscribeChunk(fpath, env.bin_exists, ngl, code, out, files)
          IN /\ txts' = files
             /\ res' = r
             /\ backend' = Append(backend, wrote)
             /\ log' = Append(log, <<"run", fpath, r.ok>>)
  /\ pc' = "called"
  /\ UNCHANGED <<run, env, wavs_dir, wavs, metadata, chunks, meta_lines>>

\* main 149-157: the exception handler and the append; the loop goes on
\* variant: no except clause, the exception ends the run
TranscribeAbortOnError ==
  /\ pc = "called"
  /\ LET k == Len(meta_lines) + 1
         fname == chunks[k][1]
     IN IF res.ok
        THEN /\ meta_lines' = Append(meta_lines, <<"wavs/" \o fname, "|">> \o res.text)
             /\ pc' = IF k = Len(chunks) THEN "write" ELSE "transcribe"
        ELSE /\ pc' = "error"
             /\ UNCHANGED meta_lines
  /\ res' = NoRes
  /\ UNCHANGED <<run, env, wavs_dir, wavs, txts, metadata, chunks, backend, log>>

TranscribeAppend ==
  /\ pc = "called"
  /\ LET k == Len(meta_lines) + 1
         fname == chunks[k][1]
         txt == IF res.ok THEN res.text ELSE <<>>
     IN /\ meta_lines' = Append(meta_lines, <<"wavs/" \o fname, "|">> \o txt)
        /\ pc' = IF k = Len(chunks) THEN "write" ELSE "transcribe"
  /\ res' = NoRes
  /\ UNCHANGED <<run, env, wavs_dir, wavs, txts, metadata, chunks, backend, log>>

\* variant: metadata.csv written inside the transcription loop
WriteManifestInLoop ==
  /\ pc \in {"transcribe", "write"}
  /\ metadata' = <<Join(meta_lines)>>
  /\ log' = Append(log, <<"manifest", MetaPath>>)
  /\ pc' = IF pc = "write" THEN "done" ELSE pc
  /\ UNCHANGED <<run, env, wavs_dir, wavs, txts, chunks, meta_lines, res, backend>>

\* main 159-161 (text mode on POSIX: "\n" is written as is)
WriteManifest ==
  /\ pc = "write"
  /\ metadata' = <<Join(meta_lines)>>
  /\ log' = Append(log, <<"manifest", MetaPath>>)
  /\ pc' = "done"
  /\ UNCHANGED <<run, env, wavs_dir, wavs, txts, chunks, meta_lines, res, backend>>

Next == MainStart \/ SplitChunk \/ TranscribeCall \/ TranscribeAppend \/ WriteManifest

Spec == Init /\ [][Next]_vars

TypeOK == pc \in {"idle", "split", "transcribe", "called", "write"} \cup Terminal

(* ---------------- what the claims speak of ---------------- *)
WavEvents == SelectSeq(log, LAMBDA e : e[1] = "wav")
RunEvents == SelectSeq(log, LAMBDA e : e[1] = "run")
ManifestEvents == SelectSeq(log, LAMBDA e : e[1] = "manifest")

\* path of the k-th segment file (1-based ordinal) and of its sidecar
SegmentPath(k) == OUT_DIR \o "/wavs/" \o Pad4(k) \o ".wav"
SidecarPath(k) == OUT_DIR \o "/wavs/" \o Pad4(k) \o ".txt"

\* frames of the k-th segment of this run
Seg(k) == wavs[chunks[k][2]].frames

RECURSIVE SumFrames(_)
SumFrames(k) == IF k = 0 THEN 0 ELSE Len(Seg(k)) + SumFrames(k - 1)

\* ceil(nfrm / fpc) as the least n with n * fpc >= nfrm
CeilQuot(nfrm, fpc) ==
  CHOOSE n \in 0..(MaxFrames + 1) : n * fpc >= nfrm /\ (n - 1) * fpc < nfrm

SplitOver == pc \in {"transcribe", "called", "write", "done"}

\* text field of a manifest line: what follows "wavs/NNNN.wav" and "|"
TextOf(line) == SubSeq(line, 3, Len(line))

\* the lines of a file, as a reader sees them
RECURSIVE SplitLines(_)
SplitLines(s) ==
  IF \A j \in 1..Len(s) : s[j] # NL THEN <<s>>
  ELSE LET j == CHOOSE j \in 1..Len(s) :
                  s[j] = NL /\ \A h \in 1..(j - 1) : s[h] # NL
       IN <<SubSeq(s, 1, j - 1)>> \o SplitLines(SubSeq(s, j + 1, Len(s)))

\* C1: with total_frames > 0 and chunk_sec > 0 split_wav does not fail and
\* produces n = ceil(total_frames / fps) segments, fps = rate * chunk_sec; segment
\* k starts at frame (k-1) * fps, every segment but the last holds fps frames,
\* the last holds the remainder and is never empty, and the counts sum to
\* total_frames.
C1_Segmentation ==
  /\ (pc = "error") => (env.nfrm = 0 \/ env.chunk_sec <= 0)
  /\ (pc = "split" \/ SplitOver) =>
       LET fps == env.rate * env.chunk_sec
           n == CeilQuot(env.nfrm, fps)
       IN /\ env.nfrm > 0 /\ env.chunk_sec > 0
          /\ Len(chunks) <= n
          /\ \A k \in 1..Len(chunks) :
               /\ Seg(k) # <<>>
               /\ Seg(k) = [j \in 1..Len(Seg(k)) |-> (k - 1) * fps + j]
               /\ (k < n) => Len(Seg(k)) = fps
               /\ (k = n) => Len(Seg(k)) = env.nfrm - (n - 1) * fps
          /\ SplitOver => /\ Len(chunks) = n
                          /\ SumFrames(n) = env.nfrm

C1_Witness ==
  /\ pc = "transcribe"
  /\ env.nfrm = 3 /\ env.rate * env.chunk_sec = 2
  /\ Len(chunks) = 2 /\ Len(Seg(1)) = 2 /\ Len(Seg(2)) = 1

\* C2: a failed backend invocation is caught: the segment's manifest text is
\* empty, the run is not aborted, the following segments are attempted, and
\* the j-th attempt of a run is always for segment j (no segment twice).
C2_FailureIsolated ==
  LET runs == RunEvents
  IN /\ Len(runs) <= Len(chunks)
     /\ \A j \in 1..Len(runs) : runs[j][2] = SegmentPath(j)
     /\ \A j \in 1..Len(meta_lines) :
          ~runs[j][3] => meta_lines[j] = <<"wavs/" \o Pad4(j) \o ".wav", "|">>
     /\ (runs # <<>>) => pc \in {"transcribe", "called", "write", "done"}
     /\ (pc = "done") => Len(runs) = Len(chunks) /\ Len(meta_lines) = Len(chunks)

C2_Witness ==
  /\ pc = "done" /\ env.bin_exists
  /\ Len(chunks) = 3
  /\ ~RunEvents[2][3] /\ RunEvents[3][3]
  /\ TextOf(meta_lines[2]) = <<>> /\ TextOf(meta_lines[3]) # <<>>

\* C3: the manifest of a completed run has one line per segment and its k-th
\* line is for wavs/NNNN.wav, NNNN the ordinal k.
C3_OneLinePerSegment ==
  (pc = "done") =>
    LET lines == SplitLines(metadata[1])
    IN /\ Len(lines) = Len(chunks)
       /\ \A k \in 1..Len(lines) :
            /\ Len(lines[k]) >= 2
            /\ lines[k][1] = "wavs/" \o Pad4(k) \o ".wav"
            /\ lines[k][2] = "|"

\* C4: the text field of a manifest line holds neither the delimiter "|" nor
\* a line terminator.
C4_TextSanitized ==
  \A k \in 1..Len(meta_lines) :
    \A j \in 1..Len(TextOf(meta_lines[k])) :
      TextOf(meta_lines[k])[j] \notin {"|", NL, CR}

\* C5: once the subprocess has returned, transcribe_chunk succeeds exactly when
\* the sidecar file exists, whatever the exit code, and then returns the file's
\* contents (as read in text mode and stripped); its failure carries
\* the command line, the exit code and the captured output.
C5_SidecarDecides ==
  (pc = "called" /\ env.bin_exists) =>
    LET k == Len(meta_lines) + 1
    IN /\ res.proc # <<>>
       /\ res.proc[1].returncode \in ExitCodes
       /\ res.ok <=> (SidecarPath(k) \in DOMAIN txts)
       /\ res.ok => res.text = Strip(ReadText(txts[SidecarPath(k)]))
       /\ ~res.ok =>
            /\ res.msg = <<res.proc[1].args, res.proc[1].returncode, res.proc[1].out>>
            /\ res.proc[1].args[1] = WHISPER_BIN
            /\ \E j \in 1..Len(res.proc[1].args) : res.proc[1].args[j] = SegmentPath(k)

C5_Witness ==
  /\ pc = "called" /\ env.bin_exists
  /\ res.ok /\ res.proc[1].returncode = 1
  /\ res.text = <<"a">>

\* C6: with the backend executable or the model file missing the run writes
\* no segment file, attempts no transcription and writes no manifest.
C6_MissingBackendFatal ==
  (run >= 1 /\ (~env.bin_exists \/ ~env.model_exists)) => log = <<>>

\* C7: with zero frames or chunk_sec <= 0 the run ends in a fatal error, having
\* written no segment file and no manifest.
C7_EmptyOrBadChunkFatal ==
  (run >= 1 /\ (env.nfrm = 0 \/ env.chunk_sec <= 0)) =>
    /\ log = <<>>
    /\ chunks = <<>>
    /\ pc \in {"exit", "error"}
    /\ (env.in_exists /\ env.model_exists) => pc = "error"

C7_Witness ==
  /\ pc = "error" /\ wavs_dir
  /\ env.nfrm = 0 /\ env.chunk_sec > 0
  /\ log = <<>>

\* C8: after a completed run wavs/ holds exactly that run's segment files and
\* metadata.csv exactly that run's lines.
C8_FullRewrite ==
  (pc = "done") =>
    /\ metadata = <<Join(meta_lines)>>
    /\ {p \in DOMAIN wavs : TRUE} = {chunks[k][2] : k \in 1..Len(chunks)}

\* C9: the manifest text of segment k is what the backend wrote for segment k
\* in this run, or empty if it wrote nothing in this run.
C9_NoStaleTranscript ==
  \A k \in 1..Len(meta_lines) :
    TextOf(meta_lines[k]) =
      IF backend[k] = <<>> THEN <<>> ELSE Strip(ReadText(backend[k][1]))

\* C10: within a run all segment files are written first, then the backend is
\* invoked for segment 1, 2, ... in this order, and the manifest is written
\* once, after every segment has been attempted.
C10_StrictOrder ==
  LET n == CeilQuot(env.nfrm, env.rate * env.chunk_sec)
  IN /\ log = WavEvents \o RunEvents \o ManifestEvents
     /\ \A j \in 1..Len(WavEvents) : WavEvents[j][2] = SegmentPath(j)
     /\ \A j \in 1..Len(RunEvents) : RunEvents[j][2] = SegmentPath(j)
     /\ (RunEvents # <<>>) => Len(WavEvents) = n
     /\ (ManifestEvents # <<>>) =>
          /\ Len(ManifestEvents) = 1
          /\ Len(WavEvents) = n
          /\ Len(RunEvents) = n
     /\ (pc = "done") => ManifestEvents # <<>>

C10_Witness ==
  /\ pc = "done"
  /\ Len(WavEvents) = 3 /\ Len(RunEvents) = 3 /\ Len(ManifestEvents) = 1

====
